---- MODULE Spec2Model ----
(***************************************************************************)
(* A model of pandasvalidation.py (pandas-validation 0.2.0).               *)
(*                                                                         *)
(* Representation                                                          *)
(*   - A scalar is a record [t, v]: t = "num" (v is the number in units of *)
(*     one half, so v = 3 is 1.5 and v = -2 is -1), t = "str" (v is the    *)
(*     tuple of the string's characters), t = "dt" (v is the day of        *)
(*     January 2016 of a Timestamp), t = "bool", and t = "nan" for every   *)
(*     missing marker (None, NaN, NaT).                                    *)
(*   - A pandas.Series is a function from index labels to scalars; the     *)
(*     input columns carry the default index 1..n, a column that went      *)
(*     through dropna() keeps only a subset of the labels.                 *)
(*   - A mask is a function from index labels to BOOLEAN.                  *)
(*   - An optional argument is <<>> for None and <<x>> for the value x.    *)
(*   - A warning message is a TLA+ string.                                 *)
(*   - A returned object is [kind, val]: kind "none" (nothing returned),   *)
(*     "series" (a column of scalars), "mask" (a boolean column) or        *)
(*     "frame" (a mask frame).                                             *)
(* Input columns are columns over the scalars above. The columns given to  *)
(* to_string and validate_string are object columns (cells are Python      *)
(* objects). Numbers are not fed to the datetime parser (they would be     *)
(* read as epoch nanoseconds, which the day resolution cannot represent).  *)
(* The dict of masks keeps insertion order (Python 3.7 and later).         *)
(***************************************************************************)
EXTENDS Integers, Sequences, FiniteSets

VARIABLES pc, series, args, masks, msg_list, warnings, raised, ret

vars == <<pc, series, args, masks, msg_list, warnings, raised, ret>>

(* Longest input column. *)
MaxLen == 2

(* Largest number of checks of validate_string enabled in one call. *)
MaxChecks == 2

(* Scalars *)

NaN == [t |-> "nan", v |-> 0]

Num(h) == [t |-> "num", v |-> h]

Str(cs) == [t |-> "str", v |-> cs]

Dt(d) == [t |-> "dt", v |-> d]

Bool(b) == [t |-> "bool", v |-> b]

None == <<>>

Some(x) == <<x>>

(* Python truthiness of an optional number (if min_value:). *)
TruthyNum(opt) == opt # None /\ opt[1] # 0

(* Python truthiness of an optional string (if min_datetime:, if case:). *)
TruthyStr(opt) == opt # None /\ opt[1] # <<>>

name == "col"

(* repr(series.name) *)
repr(n) == "'" \o n \o "'"

(* sep.join(list) *)
RECURSIVE join(_, _)
join(sep, list) ==
    IF list = <<>> THEN ""
    ELSE IF Len(list) = 1 THEN list[1]
    ELSE list[1] \o sep \o join(sep, Tail(list))

(* Characters and number / date text *)

DigitChar == <<"0", "1", "2", "3", "4", "5", "6", "7", "8", "9">>

DigitSet == {DigitChar[i] : i \in 1..10}

DigitVal(c) == (CHOOSE i \in 1..10 : DigitChar[i] = c) - 1

RECURSIVE Digits(_)
Digits(n) == IF n < 10 THEN <<DigitChar[n + 1]>>
             ELSE Digits(n \div 10) \o <<DigitChar[(n % 10) + 1]>>

RECURSIVE DigitsVal(_)
DigitsVal(cs) == IF cs = <<>> THEN 0
                 ELSE 10 * DigitsVal(SubSeq(cs, 1, Len(cs) - 1)) + DigitVal(cs[Len(cs)])

(* '{}'.format(n) of a natural number, as message text *)
format_int(n) == join("", Digits(n))

IsDigits(cs) == Len(cs) > 0 /\ \A i \in 1..Len(cs) : cs[i] \in DigitSet

Abs(h) == IF h < 0 THEN -h ELSE h

Sign(h) == IF h < 0 THEN <<"-">> ELSE <<>>

(* '%g' % x for x a multiple of one half *)
FormatG(h) == Sign(h) \o Digits(Abs(h) \div 2) \o
              (IF Abs(h) % 2 = 1 THEN <<".", "5">> ELSE <<>>)

(* '%.1f' % x for x a multiple of one half *)
FormatF1(h) == Sign(h) \o Digits(Abs(h) \div 2) \o
               (IF Abs(h) % 2 = 1 THEN <<".", "5">> ELSE <<".", "0">>)

FloatFormat(float_format, h) ==
    IF float_format = "%g" THEN FormatG(h) ELSE FormatF1(h)

(* int(x): truncation toward zero *)
int(h) == IF h < 0 THEN -((Abs(h) \div 2) * 2) ELSE (h \div 2) * 2

(* The text -?digits(.digits)? read as a number; <<>> when it is not one.
   Fractions are those of the model's resolution (.0 and .5). *)
ParseNumber(cs) ==
    LET neg  == Len(cs) > 0 /\ cs[1] = "-"
        body == IF neg THEN Tail(cs) ELSE cs
        dots == {i \in 1..Len(body) : body[i] = "."}
        whole == IF dots = {} THEN body
                 ELSE SubSeq(body, 1, (CHOOSE i \in dots : TRUE) - 1)
        frac == IF dots = {} THEN <<>>
                ELSE SubSeq(body, (CHOOSE i \in dots : TRUE) + 1, Len(body))
        ok   == /\ Cardinality(dots) <= 1
                /\ IsDigits(whole)
                /\ (dots # {} => frac \in {<<"0">>, <<"5">>})
        mag  == 2 * DigitsVal(whole) + (IF frac = <<"5">> THEN 1 ELSE 0)
    IN  IF ok THEN Some(IF neg THEN -mag ELSE mag) ELSE None

TwoDigits(n) == IF n < 10 THEN <<"0">> \o Digits(n) ELSE Digits(n)

Year == <<"2", "0", "1", "6">>

(* x.strftime(format) of a Timestamp on day d of January 2016 *)
strftime(d, format) ==
    IF format = "%Y-%m-%d" THEN Year \o <<"-", "0", "1", "-">> \o TwoDigits(d)
    ELSE Year

(* The text of the min_datetime / max_datetime arguments and of the
   parseable cells: the day of a full date, a bare year (1 January), or
   <<>> when the text is not a date. format = None is the parser's
   inference; "%Y" is matched whole (exact) or as a prefix search. *)
ParseDate(cs, format, exact) ==
    LET full == /\ Len(cs) = 10
                /\ SubSeq(cs, 1, 8) = Year \o <<"-", "0", "1", "-">>
                /\ IsDigits(SubSeq(cs, 9, 10))
                /\ DigitsVal(SubSeq(cs, 9, 10)) \in 1..31
        year == cs = Year
        hasyear == Len(cs) >= 4 /\
                   \E i \in 1..(Len(cs) - 3) : SubSeq(cs, i, i + 3) = Year
    IN  IF format = None
        THEN IF full THEN Some(DigitsVal(SubSeq(cs, 9, 10)))
             ELSE IF year THEN Some(1) ELSE None
        ELSE IF exact THEN (IF year THEN Some(1) ELSE None)
             ELSE (IF hasyear THEN Some(1) ELSE None)

(* The coercion primitives, one cell at a time *)

(* pandas.to_numeric(..., errors='coerce') *)
NumericCoerce(x) ==
    CASE x.t = "num" -> x
      [] x.t = "nan" -> NaN
      [] x.t = "str" -> IF ParseNumber(x.v) = None THEN NaN
                        ELSE Num(ParseNumber(x.v)[1])

(* pandas.to_datetime(..., errors='coerce', format=..., exact=...) *)
DatetimeCoerce(x, format, exact) ==
    CASE x.t = "dt"  -> x
      [] x.t = "nan" -> NaN
      [] x.t = "str" -> IF ParseDate(x.v, format, exact) = None THEN NaN
                        ELSE Dt(ParseDate(x.v, format, exact)[1])

(* errors='raise': the strict parse fails on a cell the lenient one blanks *)
StrictFails(s, converted) ==
    \E i \in DOMAIN s : s[i].t # "nan" /\ converted[i].t = "nan"

(* Series primitives *)

notnull(s) == [i \in DOMAIN s |-> s[i].t # "nan"]

isnull(s) == [i \in DOMAIN s |-> s[i].t = "nan"]

dropna(s) == [i \in {j \in DOMAIN s : s[j].t # "nan"} |-> s[i]]

(* keep='first': a cell is a duplicate when an earlier cell equals it;
   missing cells compare equal to each other *)
duplicated(s) == [i \in DOMAIN s |-> \E j \in DOMAIN s : j < i /\ s[j] = s[i]]

any(m) == \E i \in DOMAIN m : m[i]

all(m) == \A i \in DOMAIN m : m[i]

And(a, b) == [i \in DOMAIN a |-> a[i] /\ b[i]]

(* The mask used as it is, without the ~ *)
Invert_omitted(m) == m

Invert(m) == [i \in DOMAIN m |-> ~m[i]]

(* pandas.concat(masks, axis='columns'): the frame's index is the union of
   the masks' indexes; a cell a mask has no label for is NaN (absent) *)
concat(ms) ==
    [index |-> UNION {DOMAIN ms[k].mask : k \in 1..Len(ms)}, columns |-> ms]

(* mask_frame.any(axis=1): NaN cells are skipped *)
any_axis1(frame) ==
    [i \in frame.index |->
        \E k \in 1..Len(frame.columns) :
            i \in DOMAIN frame.columns[k].mask /\ frame.columns[k].mask[i]]

(* pandas.Series(x, index=index): a scalar broadcast over an index *)
Broadcast(x, index) == [i \in index |-> x]

(* s.where(cond, other): cells where cond is not true are taken from other *)
where(s, cond, other) ==
    [i \in DOMAIN s |-> IF i \in DOMAIN cond /\ cond[i] THEN s[i] ELSE other[i]]


(* The input columns of length at most MaxLen over a set of cells *)
Columns(cells) == UNION {[1..n -> cells] : n \in 0..MaxLen}

(* series.dtype *)
dtype(s) ==
    IF \A i \in DOMAIN s : s[i].t \in {"num", "nan"} THEN "float64"
    ELSE IF \A i \in DOMAIN s : s[i].t \in {"dt", "nan"} THEN "datetime64"
    ELSE "object"

(* A message list that names every check, failing or not *)
_get_error_messages_all(ms, error_info) ==
    [k \in 1..Len(ms) |-> error_info[ms[k].key]]

(* The messages of the masks that have any true cell, in mask order *)
_get_error_messages(ms, error_info) ==
    LET failing == SelectSeq(ms, LAMBDA m : any(m.mask))
    IN  [k \in 1..Len(failing) |-> error_info[failing[k].key]]

(* An unknown selector accepted, the call falling through to return None *)
ReturnTypes_fallthrough == {"mask_frame", "mask_series", "values", "frame"}

ReturnTypes == {"mask_frame", "mask_series", "values"}

NoReturn == [kind |-> "none", val |-> <<>>]

numeric_error_info ==
    [k \in {"nonconvertible", "isnull", "nonunique", "noninteger",
            "too_low", "too_high"} |->
        CASE k = "nonconvertible" -> "Value(s) not converted to datetime set as NaT"
          [] k = "isnull"         -> "NaN value(s)"
          [] k = "nonunique"      -> "duplicates"
          [] k = "noninteger"     -> "non-integer(s)"
          [] k = "too_low"        -> "value(s) too low"
          [] k = "too_high"       -> "values(s) too high"]

(* A noninteger mask that marks only the rows holding a non-integer *)
noninteger_mask_per_row(converted, index) ==
    [i \in index |-> converted[i].t = "num" /\ converted[i].v # int(converted[i].v)]

(* The noninteger mask: one flag for the column, set at every row *)
noninteger_mask(converted, index) ==
    LET d == dropna(converted)
        null_dropped == any([i \in DOMAIN d |-> d[i].v # int(d[i].v)])
    IN  Broadcast(null_dropped, index)

(* masks[key] = mask, under the condition of one check; the keys keep
   their insertion order *)
AppendIf(mask_list, enabled, entry) ==
    IF enabled THEN Append(mask_list, entry) ELSE mask_list

(* The tail shared by validate_datetime and validate_numeric: the warning
   built from the failing masks, the return_type test and the returned
   object *)
validate_return(converted, mask_list, msgs, mask_frame, return_type) ==
    [masks |-> mask_list, msg_list |-> msgs,
     warnings |-> IF Len(msgs) > 0
                  THEN <<repr(name) \o ": " \o join("; ", msgs) \o ".">>
                  ELSE <<>>,
     raised |-> IF return_type # None /\ return_type[1] \notin ReturnTypes
                THEN "ValueError" ELSE "none",
     ret |-> IF return_type = None THEN NoReturn
             ELSE CASE return_type[1] = "mask_frame" ->
                         [kind |-> "frame", val |-> mask_frame]
                    [] return_type[1] = "mask_series" ->
                         [kind |-> "mask", val |-> any_axis1(mask_frame)]
                    [] return_type[1] = "values" ->
                         [kind |-> "series",
                          val |-> where(converted, Invert(any_axis1(mask_frame)),
                                        Broadcast(NaN, DOMAIN converted))]
                    [] OTHER -> NoReturn]

validate_numeric(s, nullable, unique, integer, min_value, max_value, return_type) ==
    LET Checked(converted, mask_list) ==
            validate_return(converted, mask_list,
                            _get_error_messages(mask_list, numeric_error_info),
                            concat(mask_list), return_type)
        Masked(converted, d) ==
            Checked(converted,
                AppendIf(AppendIf(AppendIf(AppendIf(AppendIf(
                    <<[key |-> "nonconvertible",
                       mask |-> And(notnull(s), isnull(converted))]>>,
                    ~nullable,
                    [key |-> "isnull", mask |-> isnull(converted)]),
                    unique,
                    [key |-> "nonunique", mask |-> duplicated(d)]),
                    integer,
                    [key |-> "noninteger",
                     mask |-> noninteger_mask(converted, DOMAIN s)]),
                    TruthyNum(min_value),
                    [key |-> "too_low",
                     mask |-> [i \in DOMAIN d |-> d[i].v < min_value[1]]]),
                    TruthyNum(max_value),
                    [key |-> "too_high",
                     mask |-> [i \in DOMAIN d |-> d[i].v > max_value[1]]]))
        Converted(converted) == Masked(converted, dropna(converted))
    IN  Converted(IF dtype(s) # "float64"
                  THEN [i \in DOMAIN s |-> NumericCoerce(s[i])]
                  ELSE s)

datetime_error_info ==
    [k \in {"nonconvertible", "isnull", "nonunique", "too_low", "too_high"} |->
        CASE k = "nonconvertible" -> "Value(s) not converted to datetime set as NaT"
          [] k = "isnull"         -> "NaT value(s)"
          [] k = "nonunique"      -> "duplicates"
          [] k = "too_low"        -> "date(s) too early"
          [] k = "too_high"       -> "date(s) too late"]

validate_datetime(s, nullable, unique, min_datetime, max_datetime, return_type) ==
    LET Checked(converted, mask_list) ==
            validate_return(converted, mask_list,
                            _get_error_messages(mask_list, datetime_error_info),
                            concat(mask_list), return_type)
        Masked(converted, d) ==
            Checked(converted,
                AppendIf(AppendIf(AppendIf(AppendIf(
                    <<[key |-> "nonconvertible",
                       mask |-> And(notnull(s), isnull(converted))]>>,
                    ~nullable,
                    [key |-> "isnull", mask |-> isnull(converted)]),
                    unique,
                    [key |-> "nonunique", mask |-> duplicated(d)]),
                    TruthyStr(min_datetime),
                    [key |-> "too_low",
                     mask |-> [i \in DOMAIN d |->
                         d[i].v < ParseDate(min_datetime[1], None, TRUE)[1]]]),
                    TruthyStr(max_datetime),
                    [key |-> "too_high",
                     mask |-> [i \in DOMAIN d |->
                         d[i].v > ParseDate(max_datetime[1], None, TRUE)[1]]]))
        Converted(converted) == Masked(converted, dropna(converted))
    IN  Converted(IF dtype(s) # "datetime64"
                  THEN [i \in DOMAIN s |-> DatetimeCoerce(s[i], None, TRUE)]
                  ELSE s)

(* Strings *)

Whitespace == {" ", "\n", "\t"}

UpperChars == {"A", "B"}

LowerChars == {"a", "b", "x"}

islower(cs) ==
    /\ \E i \in 1..Len(cs) : cs[i] \in LowerChars
    /\ \A i \in 1..Len(cs) : cs[i] \notin UpperChars

isupper(cs) ==
    /\ \E i \in 1..Len(cs) : cs[i] \in UpperChars
    /\ \A i \in 1..Len(cs) : cs[i] \notin LowerChars

istitle(cs) ==
    /\ \E i \in 1..Len(cs) : cs[i] \in UpperChars \cup LowerChars
    /\ \A i \in 1..Len(cs) :
        /\ cs[i] \in UpperChars =>
              (i = 1 \/ cs[i - 1] \notin UpperChars \cup LowerChars)
        /\ cs[i] \in LowerChars =>
              (i > 1 /\ cs[i - 1] \in UpperChars \cup LowerChars)

(* getattr(validated.dropna().str, 'is' + case)() on one cell *)
iscase(case, cs) ==
    CASE case = "lower" -> islower(cs)
      [] case = "upper" -> isupper(cs)
      [] case = "title" -> istitle(cs)

(* str.contains(pat) for a pattern that is one literal character *)
contains(cs, pat) == \E i \in 1..Len(cs) : cs[i] = pat

(* str.contains('\s', regex=True) *)
contains_whitespace(cs) == \E i \in 1..Len(cs) : cs[i] \in Whitespace

(* str.contains('^\s|\s$', regex=True) *)
contains_trailing_whitespace(cs) ==
    Len(cs) > 0 /\ (cs[1] \in Whitespace \/ cs[Len(cs)] \in Whitespace)

(* str(x) of one cell, as Series.astype(str) renders it *)
astype_str(x) ==
    CASE x.t = "str"  -> x
      [] x.t = "nan"  -> Str(<<"n", "a", "n">>)
      [] x.t = "bool" -> Str(IF x.v THEN <<"T", "r", "u", "e">>
                             ELSE <<"F", "a", "l", "s", "e">>)
      [] x.t = "num"  -> Str(FormatF1(x.v))
      [] x.t = "dt"   -> Str(strftime(x.v, "%Y-%m-%d") \o
                             <<" ", "0", "0", ":", "0", "0", ":", "0", "0">>)

_datetime_to_string(s, format) ==
    LET datetime_mask == [i \in DOMAIN s |-> s[i].t = "dt"]
        converted == IF any(datetime_mask)
                     THEN [i \in DOMAIN s |->
                             IF datetime_mask[i]
                             THEN Str(strftime(s[i].v, format)) ELSE s[i]]
                     ELSE s
    IN  where(converted, datetime_mask, s)

(* Numbers left as they are *)
_numeric_to_string_skipped(s, float_format) == s

_numeric_to_string(s, float_format) ==
    LET numeric_mask == And([i \in DOMAIN s |-> s[i].t = "num"], notnull(s))
        converted == IF any(numeric_mask)
                     THEN [i \in DOMAIN s |->
                             IF numeric_mask[i]
                             THEN Str(FloatFormat(float_format, s[i].v)) ELSE s[i]]
                     ELSE s
    IN  where(converted, numeric_mask, s)

(* Missing cells left as the text "nan" *)
to_string_nan_text(s, float_format, datetime_format) ==
    LET c1 == _numeric_to_string(s, float_format)
        c2 == _datetime_to_string(c1, datetime_format)
    IN  [i \in DOMAIN c2 |-> astype_str(c2[i])]

to_string(s, float_format, datetime_format) ==
    LET c1 == _numeric_to_string(s, float_format)
        c2 == _datetime_to_string(c1, datetime_format)
        c3 == [i \in DOMAIN c2 |-> astype_str(c2[i])]
    IN  where(c3, notnull(s), Broadcast(NaN, DOMAIN s))

(* Coercion probe and tolerant coercers *)

(* A probe that marks every row whose coercion is missing *)
mask_nonconvertible_no_notnull(s, to_datatype, datetime_format, exact_date) ==
    IF to_datatype \notin {"numeric", "datetime"}
    THEN [raised |-> "ValueError", ret |-> NoReturn]
    ELSE LET converted ==
                 IF to_datatype = "numeric"
                 THEN [i \in DOMAIN s |-> NumericCoerce(s[i])]
                 ELSE [i \in DOMAIN s |->
                         DatetimeCoerce(s[i], datetime_format, exact_date)]
         IN  [raised |-> "none",
              ret |-> [kind |-> "mask", val |-> isnull(converted)]]

mask_nonconvertible(s, to_datatype, datetime_format, exact_date) ==
    IF to_datatype \notin {"numeric", "datetime"}
    THEN [raised |-> "ValueError", ret |-> NoReturn]
    ELSE LET converted ==
                 IF to_datatype = "numeric"
                 THEN [i \in DOMAIN s |-> NumericCoerce(s[i])]
                 ELSE [i \in DOMAIN s |->
                         DatetimeCoerce(s[i], datetime_format, exact_date)]
         IN  [raised |-> "none",
              ret |-> [kind |-> "mask",
                       val |-> And(notnull(s), isnull(converted))]]

to_datetime(arg, format, exact) ==
    LET lenient == [i \in DOMAIN arg |-> DatetimeCoerce(arg[i], format, exact)]
    IN  IF StrictFails(arg, lenient)
        THEN [ret |-> [kind |-> "series", val |-> lenient],
              warnings |-> <<repr(name) \o
                             ": value(s) not converted to datetime set as NaT">>]
        ELSE [ret |-> [kind |-> "series", val |-> lenient], warnings |-> <<>>]

(* A coercer that blanks the cells without warning *)
to_numeric_silent(arg) ==
    [ret |-> [kind |-> "series",
              val |-> [i \in DOMAIN arg |-> NumericCoerce(arg[i])]],
     warnings |-> <<>>]

to_numeric(arg) ==
    LET lenient == [i \in DOMAIN arg |-> NumericCoerce(arg[i])]
    IN  IF StrictFails(arg, lenient)
        THEN [ret |-> [kind |-> "series", val |-> lenient],
              warnings |-> <<repr(name) \o
                             ": value(s) not converted to numeric set as NaN">>]
        ELSE [ret |-> [kind |-> "series", val |-> lenient], warnings |-> <<>>]

(* validate_string *)

(* validated.str.len().min() < n, false when every cell is missing *)
min_len_below(v, n) == \E i \in DOMAIN v : v[i].t = "str" /\ Len(v[i].v) < n

(* validated.str.len().max() > n, false when every cell is missing *)
max_len_above(v, n) == \E i \in DOMAIN v : v[i].t = "str" /\ Len(v[i].v) > n

Warn(cond, msg) == IF cond THEN <<msg>> ELSE <<>>

validate_string(s, a) ==
    LET validated ==
            IF \E i \in DOMAIN s : s[i].t \notin {"nan", "str"}
            THEN to_string(s, "%g", "%Y-%m-%d")
            ELSE s
        d == dropna(validated)
        n == repr(name)
    IN  [validated |-> validated,
         warnings |->
            Warn(~a.nullable /\ any(isnull(validated)), n \o ": NaN value(s)")
         \o Warn(a.unique /\ any(duplicated(validated)), n \o ": duplicates")
         \o Warn(a.min_length # None /\ min_len_below(validated, a.min_length[1]),
                 n \o ": string(s) too short (< " \o format_int(a.min_length[1])
                   \o " characters)")
         \o Warn(a.max_length # None /\ max_len_above(validated, a.max_length[1]),
                 n \o ": string(s) too long (> " \o format_int(a.max_length[1])
                   \o " characters)")
         \o Warn(a.case # None /\ a.case[1] # "" /\
                   ~all([i \in DOMAIN d |-> iscase(a.case[1], d[i].v)]),
                 n \o ": wrong case letter(s) (non-" \o a.case[1] \o "case)")
         \o Warn(~a.newlines /\
                   any([i \in DOMAIN validated |->
                          validated[i].t = "str" /\ contains(validated[i].v, "\n")]),
                 n \o ": newline character(s)")
         \o Warn(~a.trailing_whitespace /\
                   any([i \in DOMAIN validated |->
                          validated[i].t = "str" /\
                          contains_trailing_whitespace(validated[i].v)]),
                 n \o ": trailing whitespace")
         \o Warn(~a.whitespace /\
                   any([i \in DOMAIN validated |->
                          validated[i].t = "str" /\
                          contains_whitespace(validated[i].v)]),
                 n \o ": whitespace")
         \o Warn(a.matching_regex # None /\ a.matching_regex[1] # "" /\
                   ~all([i \in DOMAIN d |-> contains(d[i].v, a.matching_regex[1])]),
                 n \o ": mismatch(es) for \"matching regular expression\" ("
                   \o repr(a.matching_regex[1]) \o ")")
         \o Warn(a.non_matching_regex # None /\ a.non_matching_regex[1] # "" /\
                   any([i \in DOMAIN d |->
                          contains(d[i].v, a.non_matching_regex[1])]),
                 n \o ": match(es) for \"non-matching regular expression\" ("
                   \o repr(a.non_matching_regex[1]) \o ")")
         \o Warn(a.whitelist # None /\
                   ~all([i \in DOMAIN d |-> d[i] \in a.whitelist[1]]),
                 n \o ": Value(s) not in whitelist")
         \o Warn(a.blacklist # None /\
                   any([i \in DOMAIN d |-> d[i] \in a.blacklist[1]]),
                 n \o ": Value(s) in blacklist"),
         ret |-> IF a.return_values
                 THEN [kind |-> "series", val |-> validated]
                 ELSE NoReturn]

(* Inputs *)

NumericCells == {Num(-2), Num(2), Num(3), Str(<<"1">>), Str(<<"x">>), NaN}

NumericBounds == {None, Some(0), Some(2)}

DatetimeCells == {Dt(1), Dt(2), Str(strftime(1, "%Y-%m-%d")), Str(<<"x">>), NaN}

DatetimeBounds == {None, Some(strftime(2, "%Y-%m-%d"))}

ReturnTypeArgs == {None, Some("mask_frame"), Some("mask_series"),
                   Some("values"), Some("frame")}

StringCells == {Str(<<"a">>), Str(<<"A">>), Str(<<"a", " ">>),
                Str(<<"a", "\n", "b">>), Num(2), NaN}

ProbeDatetimeCells == {Dt(1), Str(strftime(2, "%Y-%m-%d")), Str(Year),
                       Str(<<"x">>), NaN}

MixedCells == {Num(2), Num(3), Dt(2), Str(<<"x">>), Bool(TRUE), NaN}

(* Every cell an input column can hold *)
Cells == NumericCells \cup DatetimeCells \cup StringCells
         \cup ProbeDatetimeCells \cup MixedCells

Init ==
    /\ pc = "idle"
    /\ series \in Columns(Cells)
    /\ args = <<>>
    /\ masks = <<>>
    /\ msg_list = <<>>
    /\ warnings = <<>>
    /\ raised = "none"
    /\ ret = NoReturn

ValidateNumeric ==
    /\ pc = "idle"
    /\ series \in Columns(NumericCells)
    /\ \E nullable \in BOOLEAN, unique \in BOOLEAN,
          integer \in BOOLEAN, min_value \in NumericBounds,
          max_value \in NumericBounds, return_type \in ReturnTypeArgs :
        \E r \in {validate_numeric(series, nullable, unique, integer,
                                    min_value, max_value, return_type)} :
            /\ pc' = "validate_numeric"
            /\ UNCHANGED series
            /\ args' = [nullable |-> nullable, unique |-> unique,
                        integer |-> integer, min_value |-> min_value,
                        max_value |-> max_value, return_type |-> return_type]
            /\ masks' = r.masks
            /\ msg_list' = r.msg_list
            /\ warnings' = r.warnings
            /\ raised' = r.raised
            /\ ret' = r.ret

ValidateDatetime ==
    /\ pc = "idle"
    /\ series \in Columns(DatetimeCells)
    /\ \E nullable \in BOOLEAN, unique \in BOOLEAN,
          min_datetime \in DatetimeBounds, max_datetime \in DatetimeBounds,
          return_type \in ReturnTypeArgs :
        \E r \in {validate_datetime(series, nullable, unique,
                                     min_datetime, max_datetime, return_type)} :
            /\ pc' = "validate_datetime"
            /\ UNCHANGED series
            /\ args' = [nullable |-> nullable, unique |-> unique,
                        min_datetime |-> min_datetime,
                        max_datetime |-> max_datetime,
                        return_type |-> return_type]
            /\ masks' = r.masks
            /\ msg_list' = r.msg_list
            /\ warnings' = r.warnings
            /\ raised' = r.raised
            /\ ret' = r.ret

(* The number of checks a call of validate_string enables *)
EnabledChecks(a) ==
      (IF ~a.nullable THEN 1 ELSE 0) + (IF a.unique THEN 1 ELSE 0)
    + (IF a.min_length # None THEN 1 ELSE 0)
    + (IF a.max_length # None THEN 1 ELSE 0)
    + (IF a.case # None THEN 1 ELSE 0) + (IF ~a.newlines THEN 1 ELSE 0)
    + (IF ~a.trailing_whitespace THEN 1 ELSE 0)
    + (IF ~a.whitespace THEN 1 ELSE 0)
    + (IF a.matching_regex # None THEN 1 ELSE 0)
    + (IF a.non_matching_regex # None THEN 1 ELSE 0)
    + (IF a.whitelist # None THEN 1 ELSE 0)
    + (IF a.blacklist # None THEN 1 ELSE 0)

StringArgs ==
    {a \in [nullable : BOOLEAN, unique : BOOLEAN,
            min_length : {None, Some(2)}, max_length : {None, Some(1)},
            case : {None, Some("lower"), Some("upper"), Some("title")},
            newlines : BOOLEAN, trailing_whitespace : BOOLEAN,
            whitespace : BOOLEAN,
            matching_regex : {None, Some("a")},
            non_matching_regex : {None, Some("A")},
            whitelist : {None, Some({Str(<<"a">>), Str(<<"A">>)})},
            blacklist : {None, Some({Str(<<"1">>)})},
            return_values : BOOLEAN] : EnabledChecks(a) <= MaxChecks}

ValidateString ==
    /\ pc = "idle"
    /\ series \in Columns(StringCells)
    /\ \E a \in StringArgs :
        LET r == validate_string(series, a)
        IN  /\ pc' = "validate_string"
            /\ UNCHANGED series
            /\ args' = a
            /\ masks' = <<>>
            /\ msg_list' = <<>>
            /\ warnings' = r.warnings
            /\ raised' = "none"
            /\ ret' = r.ret

MaskNonconvertible ==
    /\ pc = "idle"
    /\ \E to_datatype \in {"numeric", "datetime", "string"},
          datetime_format \in {None, Some("%Y")}, exact_date \in BOOLEAN :
        /\ series \in Columns(IF to_datatype = "datetime"
                               THEN ProbeDatetimeCells ELSE NumericCells)
        /\ LET r == mask_nonconvertible(series, to_datatype,
                                        datetime_format, exact_date)
           IN
            /\ pc' = "mask_nonconvertible"
            /\ UNCHANGED series
            /\ args' = [to_datatype |-> to_datatype,
                        datetime_format |-> datetime_format,
                        exact_date |-> exact_date]
            /\ masks' = <<>>
            /\ msg_list' = <<>>
            /\ warnings' = <<>>
            /\ raised' = r.raised
            /\ ret' = r.ret

ToNumeric ==
    /\ pc = "idle"
    /\ series \in Columns(NumericCells)
    /\ LET r == to_numeric(series)
       IN
            /\ pc' = "to_numeric"
            /\ UNCHANGED series
            /\ args' = <<>>
            /\ masks' = <<>>
            /\ msg_list' = <<>>
            /\ warnings' = r.warnings
            /\ raised' = "none"
            /\ ret' = r.ret

ToDatetime ==
    /\ pc = "idle"
    /\ series \in Columns(ProbeDatetimeCells)
    /\ \E format \in {None, Some("%Y")}, exact \in BOOLEAN :
        LET r == to_datetime(series, format, exact)
        IN  /\ pc' = "to_datetime"
            /\ UNCHANGED series
            /\ args' = [format |-> format, exact |-> exact]
            /\ masks' = <<>>
            /\ msg_list' = <<>>
            /\ warnings' = r.warnings
            /\ raised' = "none"
            /\ ret' = r.ret

ToString ==
    /\ pc = "idle"
    /\ series \in Columns(MixedCells)
    /\ \E float_format \in {"%g", "%.1f"},
          datetime_format \in {"%Y-%m-%d", "%Y"} :
        /\ pc' = "to_string"
        /\ UNCHANGED series
        /\ args' = [float_format |-> float_format,
                    datetime_format |-> datetime_format]
        /\ masks' = <<>>
        /\ msg_list' = <<>>
        /\ warnings' = <<>>
        /\ raised' = "none"
        /\ ret' = [kind |-> "series",
                   val |-> to_string(series, float_format, datetime_format)]

NextFrame == ValidateNumeric \/ ValidateDatetime

SpecFrame == Init /\ [][NextFrame]_vars

NextNumeric == ValidateNumeric

SpecNumeric == Init /\ [][NextNumeric]_vars

NextString == ValidateString

SpecString == Init /\ [][NextString]_vars

NextValidate == ValidateNumeric \/ ValidateDatetime \/ ValidateString

SpecValidate == Init /\ [][NextValidate]_vars

NextCoerce == MaskNonconvertible \/ ToNumeric \/ ToDatetime

SpecCoerce == Init /\ [][NextCoerce]_vars

NextToString == ToString

SpecToString == Init /\ [][NextToString]_vars

Next == \/ ValidateNumeric
        \/ ValidateDatetime
        \/ ValidateString
        \/ MaskNonconvertible
        \/ ToNumeric
        \/ ToDatetime
        \/ ToString

Spec == Init /\ [][Next]_vars

(* ------------------------------------------------------------------ *)
(* Properties of validate_numeric and validate_datetime                 *)

FrameValidators == {"validate_numeric", "validate_datetime"}

(* The lenient coercion of row i of the validated column *)
CoercedCell(i) ==
    IF pc = "validate_numeric" THEN NumericCoerce(series[i])
    ELSE DatetimeCoerce(series[i], None, TRUE)

LowBound ==
    IF pc = "validate_numeric" THEN args.min_value[1]
    ELSE ParseDate(args.min_datetime[1], None, TRUE)[1]

HighBound ==
    IF pc = "validate_numeric" THEN args.max_value[1]
    ELSE ParseDate(args.max_datetime[1], None, TRUE)[1]

CheckOrder == <<"nonconvertible", "isnull", "nonunique", "noninteger",
                "too_low", "too_high">>

(* The checks the call built a mask for *)
MaskKeys == {masks[k].key : k \in 1..Len(masks)}

MaskOf(key) == masks[CHOOSE k \in 1..Len(masks) : masks[k].key = key].mask

AnyNonInteger ==
    \E j \in DOMAIN series :
        CoercedCell(j).t = "num" /\ CoercedCell(j).v % 2 # 0

(* Row i fails the check, stated on the cells *)
RowFailsCheck(key, i) ==
    CASE key = "nonconvertible" ->
            series[i].t # "nan" /\ CoercedCell(i).t = "nan"
      [] key = "isnull" -> CoercedCell(i).t = "nan"
      [] key = "nonunique" ->
            /\ CoercedCell(i).t # "nan"
            /\ \E j \in DOMAIN series : j < i /\ CoercedCell(j) = CoercedCell(i)
      [] key = "noninteger" -> AnyNonInteger
      [] key = "too_low" ->
            CoercedCell(i).t # "nan" /\ CoercedCell(i).v < LowBound
      [] key = "too_high" ->
            CoercedCell(i).t # "nan" /\ CoercedCell(i).v > HighBound

RowFails(i) == \E key \in MaskKeys : RowFailsCheck(key, i)

CheckFails(key) == \E i \in DOMAIN series : RowFailsCheck(key, i)

ErrorInfo ==
    IF pc = "validate_numeric" THEN numeric_error_info ELSE datetime_error_info

FailingChecks ==
    LET Test(key) == key \in MaskKeys /\ CheckFails(key)
    IN  SelectSeq(CheckOrder, Test)

ExpectedFragments == [j \in 1..Len(FailingChecks) |-> ErrorInfo[FailingChecks[j]]]

ValuesCall ==
    pc \in FrameValidators /\ args.return_type = Some("values")

(* C1 as stated: with return_type='values' the returned column has the
   input's index, is missing exactly at the rows where some enabled check
   fails, and holds the coerced value at every other row. *)
C1_ValuesMissingExactlyAtFailures ==
    ValuesCall =>
        /\ ret.kind = "series"
        /\ DOMAIN ret.val = DOMAIN series
        /\ \A i \in DOMAIN series :
            /\ ret.val[i].t = "nan" <=> RowFails(i)
            /\ ~RowFails(i) => ret.val[i] = CoercedCell(i)

(* C1 amended: with return_type='values' the returned column has the
   input's index, is missing at every row where some enabled check fails,
   and holds the coerced value at every other row; the coerced value is
   itself missing where the input was missing, so the result can be
   missing at a row no check flags. *)
C1_ValuesMissingAtFailuresElseCoerced ==
    ValuesCall =>
        /\ ret.kind = "series"
        /\ DOMAIN ret.val = DOMAIN series
        /\ \A i \in DOMAIN series :
            ret.val[i] = IF RowFails(i) THEN NaN ELSE CoercedCell(i)

(* One row blanked by a check on non-missing cells, another row kept *)
C1_Witness ==
    /\ ValuesCall
    /\ "nonunique" \in MaskKeys
    /\ \E i, j \in DOMAIN series :
        /\ RowFails(i) /\ CoercedCell(i).t # "nan" /\ ret.val[i] = NaN
        /\ ~RowFails(j) /\ ret.val[j].t # "nan"

(* C6: in validate_numeric a bound that is given (not None, 0 included)
   adds its mask to the mask frame, true exactly at the non-missing
   coerced values strictly outside the bound, and its fragment is reported
   when such a value exists; a bound that is not given adds no key. *)
C6_GivenBoundIsChecked ==
    pc = "validate_numeric" =>
        /\ "too_low" \in MaskKeys <=> args.min_value # None
        /\ "too_high" \in MaskKeys <=> args.max_value # None
        /\ \A key \in {"too_low", "too_high"} \cap MaskKeys :
            /\ \A i \in DOMAIN MaskOf(key) : MaskOf(key)[i] <=> RowFailsCheck(key, i)
            /\ \A i \in DOMAIN series \ DOMAIN MaskOf(key) : ~RowFailsCheck(key, i)
            /\ (\E j \in 1..Len(msg_list) : msg_list[j] = numeric_error_info[key])
                  <=> CheckFails(key)

(* C9: validate_numeric and validate_datetime raise ValueError, and return
   nothing, exactly when return_type is neither None nor one of
   'mask_frame', 'mask_series', 'values'. *)
C9_UnknownReturnTypeRaises ==
    pc \in FrameValidators =>
        /\ raised = "ValueError" <=>
              (args.return_type # None /\
               args.return_type[1] \notin {"mask_frame", "mask_series", "values"})
        /\ raised = "ValueError" => ret.kind = "none"
        /\ (raised = "none" /\ args.return_type # None) => ret.kind # "none"

(* An unknown selector on a column that also failed a check *)
C9_Witness ==
    /\ pc \in FrameValidators
    /\ args.return_type = Some("frame")
    /\ raised = "ValueError"
    /\ Len(warnings) = 1

(* C10: with integer=True the noninteger mask covers the input's index and
   is true at every row when some non-missing coerced value is not
   integral, false at every row otherwise; with return_type='mask_series'
   one such value marks every row, and without one the check contributes
   no fragment. *)
C10_NonintegerMaskIsColumnWide ==
    (pc = "validate_numeric" /\ args.integer) =>
        /\ "noninteger" \in MaskKeys
        /\ DOMAIN MaskOf("noninteger") = DOMAIN series
        /\ \A i \in DOMAIN series : MaskOf("noninteger")[i] <=> AnyNonInteger
        /\ (args.return_type = Some("mask_series") /\ AnyNonInteger) =>
              \A i \in DOMAIN series : ret.val[i]
        /\ (\E j \in 1..Len(msg_list) : msg_list[j] = "non-integer(s)")
              <=> AnyNonInteger

(* A row holding an integer, or nothing, marked because of another row *)
C10_Witness ==
    /\ pc = "validate_numeric"
    /\ args.integer
    /\ MaskKeys = {"nonconvertible", "noninteger"}
    /\ args.return_type = Some("mask_series")
    /\ \E i, j \in DOMAIN series :
        /\ CoercedCell(i).t = "num" /\ CoercedCell(i).v % 2 = 1
        /\ CoercedCell(j).t = "nan"
        /\ ret.val[j]
        /\ ~RowFailsCheck("nonconvertible", j)

(* ------------------------------------------------------------------ *)
(* Properties of validate_string                                        *)

StringChecks == <<"nullable", "unique", "min_length", "max_length", "case",
                  "newlines", "trailing_whitespace", "whitespace",
                  "matching_regex", "non_matching_regex", "whitelist",
                  "blacklist">>

StringCheckSet == {StringChecks[k] : k \in 1..Len(StringChecks)}

StringCheckEnabled(c) ==
    CASE c = "nullable" -> ~args.nullable
      [] c = "unique" -> args.unique
      [] c = "min_length" -> args.min_length # None
      [] c = "max_length" -> args.max_length # None
      [] c = "case" -> args.case # None
      [] c = "newlines" -> ~args.newlines
      [] c = "trailing_whitespace" -> ~args.trailing_whitespace
      [] c = "whitespace" -> ~args.whitespace
      [] c = "matching_regex" -> args.matching_regex # None
      [] c = "non_matching_regex" -> args.non_matching_regex # None
      [] c = "whitelist" -> args.whitelist # None
      [] c = "blacklist" -> args.blacklist # None

(* The string form of row i: text stays, a number is rendered with '%g' *)
CoercedStr(i) ==
    IF series[i].t = "num" THEN Str(FormatG(series[i].v)) ELSE series[i]

(* Row i fails the check, stated on the cells; only the null check can
   fail on a missing cell *)
StringRowFails(c, i) ==
    LET x == CoercedStr(i)
    IN  IF c = "nullable" THEN x.t = "nan"
        ELSE /\ x.t # "nan"
             /\ CASE c = "unique" ->
                        \E j \in DOMAIN series : j < i /\ CoercedStr(j) = x
                  [] c = "min_length" -> Len(x.v) < args.min_length[1]
                  [] c = "max_length" -> Len(x.v) > args.max_length[1]
                  [] c = "case" -> ~iscase(args.case[1], x.v)
                  [] c = "newlines" -> \E k \in 1..Len(x.v) : x.v[k] = "\n"
                  [] c = "trailing_whitespace" ->
                        x.v[1] \in Whitespace \/ x.v[Len(x.v)] \in Whitespace
                  [] c = "whitespace" ->
                        \E k \in 1..Len(x.v) : x.v[k] \in Whitespace
                  [] c = "matching_regex" ->
                        \A k \in 1..Len(x.v) : x.v[k] # args.matching_regex[1]
                  [] c = "non_matching_regex" ->
                        \E k \in 1..Len(x.v) : x.v[k] = args.non_matching_regex[1]
                  [] c = "whitelist" -> x \notin args.whitelist[1]
                  [] c = "blacklist" -> x \in args.blacklist[1]

StringMessage(c) ==
    "'col': " \o
    CASE c = "nullable" -> "NaN value(s)"
      [] c = "unique" -> "duplicates"
      [] c = "min_length" ->
            IF args.min_length = Some(2)
            THEN "string(s) too short (< 2 characters)" ELSE "?"
      [] c = "max_length" ->
            IF args.max_length = Some(1)
            THEN "string(s) too long (> 1 characters)" ELSE "?"
      [] c = "case" -> "wrong case letter(s) (non-" \o args.case[1] \o "case)"
      [] c = "newlines" -> "newline character(s)"
      [] c = "trailing_whitespace" -> "trailing whitespace"
      [] c = "whitespace" -> "whitespace"
      [] c = "matching_regex" ->
            "mismatch(es) for \"matching regular expression\" ('a')"
      [] c = "non_matching_regex" ->
            "match(es) for \"non-matching regular expression\" ('A')"
      [] c = "whitelist" -> "Value(s) not in whitelist"
      [] c = "blacklist" -> "Value(s) in blacklist"

(* The call warned about the check *)
Fired(c) ==
    StringCheckEnabled(c) /\
    \E j \in 1..Len(warnings) : warnings[j] = StringMessage(c)

FiredChecks == SelectSeq(StringChecks, Fired)

Validators == {"validate_numeric", "validate_datetime", "validate_string"}

(* C2 as stated: one call of a validator emits at most one warning. *)
C2_AtMostOneWarningPerCall ==
    pc \in Validators => Len(warnings) <= 1

(* C2 amended: validate_numeric and validate_datetime emit at most one
   warning per call, made of the fragments of all failing checks in
   check-definition order; validate_string emits one warning per failing
   check, each with that check's fragment alone, in check-definition
   order. *)
C2_OneWarningPerFrameCallOnePerStringCheck ==
    /\ pc \in FrameValidators =>
        /\ msg_list = ExpectedFragments
        /\ warnings = IF Len(ExpectedFragments) = 0 THEN <<>>
                      ELSE <<"'col': " \o join("; ", ExpectedFragments) \o ".">>
    /\ pc = "validate_string" =>
        /\ warnings = [j \in 1..Len(FiredChecks) |-> StringMessage(FiredChecks[j])]
        /\ \A c \in StringCheckSet :
            (StringCheckEnabled(c) /\ \E i \in DOMAIN series : StringRowFails(c, i))
                => Fired(c)

(* Three checks fail in one call of a frame validator *)
C2_Witness ==
    /\ pc \in FrameValidators
    /\ Len(FailingChecks) >= 3
    /\ Len(warnings) = 1

(* C5: a check other than the null check is not failed by missing cells:
   when every non-missing cell passes an enabled check, the call reports
   no fragment for it, however many cells are missing. *)
C5_MissingCellsFailNoCheck ==
    /\ pc \in FrameValidators =>
        \A key \in MaskKeys \ {"isnull"} :
            (\A i \in DOMAIN series : series[i].t # "nan" => ~RowFailsCheck(key, i))
                => \A j \in 1..Len(msg_list) : msg_list[j] # ErrorInfo[key]
    /\ pc = "validate_string" =>
        \A c \in StringCheckSet \ {"nullable"} :
            (StringCheckEnabled(c) /\ \A i \in DOMAIN series : ~StringRowFails(c, i))
                => ~Fired(c)

(* C7 as stated: with return_values=True validate_string returns the
   coerced strings with every row that fails an enabled check replaced by
   missing. *)
C7_StringValuesBlankFailingRows ==
    (pc = "validate_string" /\ args.return_values) =>
        /\ ret.kind = "series"
        /\ DOMAIN ret.val = DOMAIN series
        /\ \A i \in DOMAIN series :
            ret.val[i] =
                IF \E c \in StringCheckSet :
                      StringCheckEnabled(c) /\ StringRowFails(c, i)
                THEN NaN ELSE CoercedStr(i)

(* C7 amended: with return_values=True validate_string returns the
   string-coerced column as it is: every row, failing or not, keeps its
   coerced string value and a missing cell stays missing; without
   return_values nothing is returned. *)
C7_StringValuesAreCoercedValues ==
    pc = "validate_string" =>
        IF args.return_values
        THEN /\ ret.kind = "series"
             /\ DOMAIN ret.val = DOMAIN series
             /\ \A i \in DOMAIN series : ret.val[i] = CoercedStr(i)
        ELSE ret.kind = "none"

(* A number returned as text beside a failing row that is kept *)
C7_Witness ==
    /\ pc = "validate_string"
    /\ args.return_values
    /\ \E i, j \in DOMAIN series :
        /\ series[i].t = "num" /\ ret.val[i] = Str(<<"1">>)
        /\ \E c \in StringCheckSet \ {"nullable"} :
              StringCheckEnabled(c) /\ StringRowFails(c, j) /\ Fired(c)
        /\ ret.val[j].t = "str"

(* ------------------------------------------------------------------ *)
(* Properties of the coercion probe, the coercers and to_string        *)

(* The lenient coercion of row i under the call's target type *)
ProbeCell(i) ==
    IF pc = "mask_nonconvertible"
    THEN IF args.to_datatype = "numeric" THEN NumericCoerce(series[i])
         ELSE DatetimeCoerce(series[i], args.datetime_format, args.exact_date)
    ELSE IF pc = "to_numeric" THEN NumericCoerce(series[i])
    ELSE DatetimeCoerce(series[i], args.format, args.exact)

(* C3: for the target types numeric and datetime mask_nonconvertible
   returns a mask on the input's index that is true at a row exactly when
   the cell is not missing and its lenient coercion is missing. *)
C3_NonconvertibleMask ==
    (pc = "mask_nonconvertible" /\ args.to_datatype \in {"numeric", "datetime"}) =>
        /\ raised = "none"
        /\ ret.kind = "mask"
        /\ DOMAIN ret.val = DOMAIN series
        /\ \A i \in DOMAIN series :
            ret.val[i] <=> (series[i].t # "nan" /\ ProbeCell(i).t = "nan")

(* A marked row beside an unmarked missing row *)
C3_Witness ==
    /\ pc = "mask_nonconvertible"
    /\ args.to_datatype = "datetime"
    /\ \E i, j \in DOMAIN series :
        /\ series[i].t = "str" /\ ret.val[i]
        /\ series[j].t = "nan" /\ ~ret.val[j]

(* C4: to_numeric and to_datetime emit exactly one warning when the strict
   coercion fails on some cell and none otherwise, and in both cases
   return the coerced column, unconvertible cells missing, without
   raising. *)
C4_CoercersWarnOnceOnFailure ==
    pc \in {"to_numeric", "to_datetime"} =>
        /\ raised = "none"
        /\ ret.kind = "series"
        /\ DOMAIN ret.val = DOMAIN series
        /\ \A i \in DOMAIN series : ret.val[i] = ProbeCell(i)
        /\ Len(warnings) =
              IF \E i \in DOMAIN series :
                    series[i].t # "nan" /\ ProbeCell(i).t = "nan"
              THEN 1 ELSE 0

(* One warning for a column with a converted and an unconvertible cell *)
C4_Witness ==
    /\ pc \in {"to_numeric", "to_datetime"}
    /\ Len(warnings) = 1
    /\ \E i, j \in DOMAIN series :
        /\ series[i].t = "str" /\ ret.val[i] = NaN
        /\ series[j].t = "str" /\ ret.val[j].t # "nan"

(* C8: to_string returns a column on the input's index in which a missing
   cell is missing, a number is rendered with float_format, a datetime
   with datetime_format and any other cell by its default string form. *)
C8_ToStringRendersEachCell ==
    pc = "to_string" =>
        /\ ret.kind = "series"
        /\ DOMAIN ret.val = DOMAIN series
        /\ \A i \in DOMAIN series :
            ret.val[i] =
                CASE series[i].t = "nan" -> NaN
                  [] series[i].t = "num" ->
                        Str(IF args.float_format = "%g" THEN FormatG(series[i].v)
                            ELSE FormatF1(series[i].v))
                  [] series[i].t = "dt" ->
                        Str(strftime(series[i].v, args.datetime_format))
                  [] series[i].t = "bool" -> Str(<<"T", "r", "u", "e">>)
                  [] series[i].t = "str" -> series[i]

(* A missing cell kept missing beside a rendered number or date *)
C8_Witness ==
    /\ pc = "to_string"
    /\ \E i, j \in DOMAIN series :
        /\ series[i] = NaN /\ ret.val[i] = NaN
        /\ series[j].t \in {"num", "dt"} /\ ret.val[j].t = "str"

====
